---------------------------- MODULE Spec2Model ----------------------------
(***************************************************************************)
(* Model of src/bot.py (polandball-art-helper): the single-slot snapshot   *)
(* cache, the text normalizers, the availability index (build and the      *)
(* cascading find), the artist scorer and the status classifier, together  *)
(* with the two request handlers that use them.                            *)
(*                                                                         *)
(* Text is a sequence of characters; a character is a one-element string,  *)
(* or "Uxxxx" for a non-ASCII code point.  An Optional[...] value is the   *)
(* empty tuple (Absent, Python's None) or the one-element tuple Some(v).   *)
(* The Optional[bool] of the classifier is one of "True", "False", "None". *)
(***************************************************************************)
EXTENDS Integers, Sequences, FiniteSets, TLC

VARIABLES
    text,       \* normalize_country harness: the input text
    key1,       \* Some(normalize_country(text)), Absent before it ran
    key2,       \* Some(normalize_country(key1)), Absent before it ran
    rec,        \* classifier harness: the CountryRecord under test
    kindArg,    \* the kind passed to rec.is_available, or None before the call
    avail,      \* what rec.is_available(kindArg) returned
    ixRecords,  \* index harness: the records given to AvailabilityIndex.build
    index,      \* Some(the index built), Absent before build ran
    ixQuery,    \* the query given to find
    ixFound,    \* Some(the pair find returned), Absent before find ran
    sQuery,     \* scorer harness: the query given to fuzzy_score
    sTarget,    \* the candidate artist string given to fuzzy_score
    sScore,     \* Some(the score returned), Absent before the call
    aRecords,   \* /artist harness: the records the handler loaded
    aName,      \* the name argument
    aKind,      \* the kind filter: "both", "splash" or "sprite"
    aReply,     \* Some(the reply built), Absent before the handler ran
    now,        \* the bot: time.time(), in whole seconds
    ttl,        \* Cache.ttl
    cache_data, \* Cache._data: Absent or Some(<<ts, data>>)
    lastSet,    \* history: Some(<<time, data>>) of the latest Cache.set call
    sheet,      \* the rows of the Google Sheet, as get_all_values reads them
    sheet_client, \* whether bot.sheet_client is constructed
    loop,       \* the handler the event loop is running, or "none"
    pc,         \* per handler: where it is
    req,        \* per handler: the command and its arguments
    got,        \* per handler: the slot its Cache.get read (ts, data)
    cached,     \* per handler: what Cache.get returned to it
    hrecords,   \* per handler: its local records, Absent before the load
    reply,      \* per handler: the reply it is sending
    fetches     \* history, per handler: its calls of fetch_records

normVars == <<text, key1, key2>>
classVars == <<rec, kindArg, avail>>
indexVars == <<ixRecords, index, ixQuery, ixFound>>
scoreVars == <<sQuery, sTarget, sScore>>
artistVars == <<aRecords, aName, aKind, aReply>>
cacheVars == <<ttl, cache_data, lastSet>>
handlerVars == <<pc, req, got, cached, hrecords, reply, fetches>>
botVars == <<now, cacheVars, sheet, sheet_client, loop, handlerVars>>
vars == <<normVars, classVars, indexVars, scoreVars, artistVars, botVars>>

None == "None"
Absent == <<>>
Some(v) == <<v>>
PyTrue == "True"
PyFalse == "False"

----------------------------------------------------------------------------
(* Characters: the part of Unicode the model's inputs are drawn from, with *)
(* Python's str.lower, str.isalpha, str.isspace, the regex class [\w'] and *)
(* unicodedata.normalize("NFKD", .) on each of them.                       *)

UpperLetters ==
    <<"A","B","C","D","E","F","G","H","I","J","K","L","M",
      "N","O","P","Q","R","S","T","U","V","W","X","Y","Z">>

LowerLetters ==
    <<"a","b","c","d","e","f","g","h","i","j","k","l","m",
      "n","o","p","q","r","s","t","u","v","w","x","y","z">>

Digits == <<"0","1","2","3","4","5","6","7","8","9">>

Occurs(s, c) == \E i \in 1..Len(s) : s[i] = c

PosIn(s, c) == CHOOSE i \in 1..Len(s) : s[i] = c

\* ord(c): the code point, which orders strings in Python's comparisons.
ord(c) ==
    IF Occurs(UpperLetters, c) THEN 64 + PosIn(UpperLetters, c)
    ELSE IF Occurs(LowerLetters, c) THEN 96 + PosIn(LowerLetters, c)
    ELSE IF Occurs(Digits, c) THEN 47 + PosIn(Digits, c)
    ELSE CASE c = " " -> 32
           [] c = "'" -> 39
           [] c = "-" -> 45
           [] c = "_" -> 95
           [] c = "U00E9" -> 233    \* e with acute
           [] c = "U0130" -> 304    \* capital I with dot above
           [] c = "U0301" -> 769    \* combining acute accent
           [] c = "U0307" -> 775    \* combining dot above

\* c.lower(): one character may lower to two (U+0130 -> "i" U+0307).
char_lower(c) ==
    IF Occurs(UpperLetters, c) THEN <<LowerLetters[PosIn(UpperLetters, c)]>>
    ELSE IF c = "U0130" THEN <<"i", "U0307">>
    ELSE <<c>>

\* c.isalpha()
isalpha(c) ==
    Occurs(UpperLetters, c) \/ Occurs(LowerLetters, c) \/ c \in {"U00E9", "U0130"}

\* c.isspace()
isspace(c) == c = " "

\* whether c matches the class [\w'] of _WORDS_RE
IsWordChar(c) == isalpha(c) \/ Occurs(Digits, c) \/ c \in {"_", "'"}

\* unicodedata.normalize("NFKD", c)
nfkd(c) ==
    CASE c = "U00E9" -> <<"e", "U0301">>
      [] c = "U0130" -> <<"I", "U0307">>
      [] OTHER -> <<c>>

RECURSIVE FlatMap(_, _)
\* the concatenation of f[s[1]], f[s[2]], ...
FlatMap(f, s) ==
    IF s = <<>> THEN <<>> ELSE f[Head(s)] \o FlatMap(f, Tail(s))

\* s.lower()
str_lower(s) == FlatMap([c \in {s[i] : i \in 1..Len(s)} |-> char_lower(c)], s)

RECURSIVE StripLeft(_)
StripLeft(s) ==
    IF s # <<>> /\ isspace(Head(s)) THEN StripLeft(Tail(s)) ELSE s

RECURSIVE StripRight(_)
StripRight(s) ==
    IF s # <<>> /\ isspace(s[Len(s)])
    THEN StripRight(SubSeq(s, 1, Len(s) - 1)) ELSE s

\* s.strip()
str_strip(s) == StripRight(StripLeft(s))

RECURSIVE StrLess(_, _)
\* x < y for Python strings: lexicographic by code point
StrLess(x, y) ==
    IF y = <<>> THEN FALSE
    ELSE IF x = <<>> THEN TRUE
    ELSE IF Head(x) = Head(y) THEN StrLess(Tail(x), Tail(y))
    ELSE ord(Head(x)) < ord(Head(y))

\* All texts over an alphabet of at most n characters.
TextsUpTo(alphabet, n) == UNION {[1..k -> alphabet] : k \in 0..n}

----------------------------------------------------------------------------
(* normalize_country                                                       *)

STOPWORDS == {<<"b","a","l","l">>}

RECURSIVE WordsFrom(_, _)
\* _WORDS_RE.findall: the maximal runs of [\w'] characters, left to right;
\* cur is the run being read.
WordsFrom(s, cur) ==
    IF s = <<>> THEN (IF cur = <<>> THEN <<>> ELSE <<cur>>)
    ELSE IF IsWordChar(Head(s)) THEN WordsFrom(Tail(s), Append(cur, Head(s)))
    ELSE (IF cur = <<>> THEN <<>> ELSE <<cur>>) \o WordsFrom(Tail(s), <<>>)

findall(s) == WordsFrom(s, <<>>)

RECURSIVE JoinSpace(_)
\* " ".join(words)
JoinSpace(words) ==
    IF words = <<>> THEN <<>>
    ELSE IF Len(words) = 1 THEN words[1]
    ELSE words[1] \o <<" ">> \o JoinSpace(Tail(words))

NotStopword(w) == w \notin STOPWORDS

normalize_country(s) ==
    LET found == findall(s)
        words == [i \in 1..Len(found) |-> str_lower(found[i])]
    IN  JoinSpace(SelectSeq(words, NotStopword))

----------------------------------------------------------------------------
(* CountryRecord and the status classifier                                 *)

AVAILABLE_VALUES == {<<"y">>}
UNAVAILABLE_VALUES == {<<"n">>}

CountryRecord(country, in_game, splash_artist, splash_rdy, sprite_artist, sprite_rdy) ==
    [country |-> country, in_game |-> in_game,
     splash_artist |-> splash_artist, splash_rdy |-> splash_rdy,
     sprite_artist |-> sprite_artist, sprite_rdy |-> sprite_rdy]

\* CountryRecord._parse: the emptiness test is on raw itself, before the
\* strip; any other value outside AVAILABLE_VALUES is unavailable.
_parse(raw) ==
    IF raw = <<>> THEN PyTrue
    ELSE LET s == str_lower(str_strip(raw))
         IN  IF s \in AVAILABLE_VALUES THEN PyTrue
             ELSE IF s \in UNAVAILABLE_VALUES THEN PyFalse
             ELSE PyFalse

\* CountryRecord.is_available
is_available(r, kind) ==
    IF kind = "splash" THEN _parse(r.splash_artist)
    ELSE IF kind = "sprite" THEN _parse(r.sprite_artist)
    ELSE None

----------------------------------------------------------------------------
(* difflib, as src/bot.py uses it: SequenceMatcher(None, a, b).ratio() and  *)
(* get_close_matches(word, possibilities, n=1, cutoff).  No junk: isjunk is *)
(* None, and the autojunk heuristic needs a second sequence of 200 or more  *)
(* characters.  Ranges are 1-based and inclusive here.  A ratio is the      *)
(* fraction num/den, compared with a cutoff given in hundredths: the float  *)
(* comparison 2.0*M/T >= 0.75 decides as 100*2*M >= 75*T does.              *)

RECURSIVE RunLen(_, _, _, _, _, _)
\* the length of the longest common run of a[i..ahi] and b[j..bhi] that
\* starts at i and j
RunLen(a, b, i, j, ahi, bhi) ==
    IF i > ahi \/ j > bhi THEN 0
    ELSE IF a[i] # b[j] THEN 0
    ELSE 1 + RunLen(a, b, i + 1, j + 1, ahi, bhi)

\* the greatest of the run lengths size[<<i, j>>], 0 when there is none
LongestRun(size) ==
    IF DOMAIN size = {} THEN 0
    ELSE CHOOSE k \in {size[p] : p \in DOMAIN size} :
             \A p \in DOMAIN size : size[p] <= k

\* of the runs of length best, the start of that earliest in a
FirstInA(size, best, alo, ahi, blo, bhi) ==
    CHOOSE i \in alo..ahi :
        /\ \E j \in blo..bhi : size[<<i, j>>] = best
        /\ \A i2 \in alo..(i - 1) : \A j \in blo..bhi : size[<<i2, j>>] # best

\* of the runs of length best that start at bi in a, the start of that
\* earliest in b
FirstInB(size, best, bi, blo, bhi) ==
    CHOOSE j \in blo..bhi :
        /\ size[<<bi, j>>] = best
        /\ \A j2 \in blo..(j - 1) : size[<<bi, j2>>] # best

\* the block find_longest_match returns for a run of length best at bi
BlockFrom(size, best, bi, blo, bhi) ==
    [i |-> bi, j |-> FirstInB(size, best, bi, blo, bhi), size |-> best]

\* the block of the greatest length best, where size gives the run lengths
BlockOf(size, best, alo, ahi, blo, bhi) ==
    IF best = 0 THEN [i |-> alo, j |-> blo, size |-> 0]
    ELSE BlockFrom(size, best, FirstInA(size, best, alo, ahi, blo, bhi), blo, bhi)

\* the block find_longest_match returns, where size gives the run lengths
LongestBlock(size, alo, ahi, blo, bhi) ==
    BlockOf(size, LongestRun(size), alo, ahi, blo, bhi)

\* SequenceMatcher.find_longest_match: the longest block common to
\* a[alo..ahi] and b[blo..bhi]; of the longest ones, that starting earliest
\* in a, and of those, that starting earliest in b.
find_longest_match(a, b, alo, ahi, blo, bhi) ==
    LongestBlock([p \in (alo..ahi) \X (blo..bhi) |->
                     RunLen(a, b, p[1], p[2], ahi, bhi)], alo, ahi, blo, bhi)

RECURSIVE MatchCount(_, _, _, _, _, _)
RECURSIVE BlocksAround(_, _, _, _, _, _, _)
\* SequenceMatcher.get_matching_blocks, summed: the longest block, then the
\* same to its left and to its right.
MatchCount(a, b, alo, ahi, blo, bhi) ==
    BlocksAround(a, b, alo, ahi, blo, bhi,
                 find_longest_match(a, b, alo, ahi, blo, bhi))

\* the size of the block m and of the blocks matched on either side of it
BlocksAround(a, b, alo, ahi, blo, bhi, m) ==
    IF m.size = 0 THEN 0
    ELSE m.size
         + (IF alo < m.i /\ blo < m.j
            THEN MatchCount(a, b, alo, m.i - 1, blo, m.j - 1) ELSE 0)
         + (IF m.i + m.size <= ahi /\ m.j + m.size <= bhi
            THEN MatchCount(a, b, m.i + m.size, ahi, m.j + m.size, bhi)
            ELSE 0)

\* difflib._calculate_ratio
_calculate_ratio(matches, length) ==
    IF length # 0 THEN [num |-> 2 * matches, den |-> length]
    ELSE [num |-> 1, den |-> 1]

\* SequenceMatcher(None, a, b).ratio()
ratio(a, b) ==
    _calculate_ratio(MatchCount(a, b, 1, Len(a), 1, Len(b)), Len(a) + Len(b))

Count(s, c) == Cardinality({i \in 1..Len(s) : s[i] = c})

RECURSIVE SumMin(_, _, _)
SumMin(a, b, cs) ==
    IF cs = {} THEN 0
    ELSE LET c == CHOOSE x \in cs : TRUE
             na == Count(a, c)
             nb == Count(b, c)
         IN  (IF na < nb THEN na ELSE nb) + SumMin(a, b, cs \ {c})

\* SequenceMatcher.quick_ratio: an upper bound from the characters in common
quick_ratio(a, b) ==
    _calculate_ratio(SumMin(a, b, {a[i] : i \in 1..Len(a)}), Len(a) + Len(b))

\* SequenceMatcher.real_quick_ratio: an upper bound from the lengths
real_quick_ratio(a, b) ==
    _calculate_ratio(IF Len(a) < Len(b) THEN Len(a) ELSE Len(b), Len(a) + Len(b))

\* r >= cutoff, the cutoff in hundredths
AtLeast(r, cutoff) == 100 * r.num >= cutoff * r.den

\* r1 > r2
RatioGreater(r1, r2) == r1.num * r2.den > r2.num * r1.den

\* (score[i], possibilities[i]) > (score[j], possibilities[j])
Above(possibilities, score, i, j) ==
    \/ RatioGreater(score[i], score[j])
    \/ /\ ~RatioGreater(score[j], score[i])
       /\ StrLess(possibilities[j], possibilities[i])

\* heapq.nlargest(1, ..) over the possibilities of the indexes ok
Largest(possibilities, score, ok) ==
    IF ok = {} THEN <<>>
    ELSE <<possibilities[CHOOSE i \in ok :
                             \A j \in ok : ~Above(possibilities, score, j, i)]>>

\* difflib.get_close_matches(word, possibilities, n=1, cutoff): the
\* possibility of the best ratio at or above the cutoff (SequenceMatcher's
\* first sequence is the possibility, its second the word); heapq.nlargest
\* compares (score, x) pairs, so of equal scores the greater string wins.
\* The result is a list of at most one string.
get_close_matches(word, possibilities, cutoff) ==
    Largest(possibilities,
            [i \in 1..Len(possibilities) |-> ratio(possibilities[i], word)],
            {i \in 1..Len(possibilities) :
                /\ AtLeast(real_quick_ratio(possibilities[i], word), cutoff)
                /\ AtLeast(quick_ratio(possibilities[i], word), cutoff)
                /\ AtLeast(ratio(possibilities[i], word), cutoff)})

----------------------------------------------------------------------------
(* AvailabilityIndex.  A dict is the sequence of its [key, value] items in  *)
(* insertion order, which is the order Python iterates it in.               *)

dict_has(d, k) == \E i \in 1..Len(d) : d[i].key = k

dict_get(d, k) == d[CHOOSE i \in 1..Len(d) : d[i].key = k].value

dict_keys(d) == [i \in 1..Len(d) |-> d[i].key]

dict_values(d) == [i \in 1..Len(d) |-> d[i].value]

\* dict_set with the bug of setdefault: a key already there keeps its value
dict_set_keep_first(d, k, v) ==
    IF dict_has(d, k) THEN d ELSE Append(d, [key |-> k, value |-> v])

\* d[k] = v: a key already there keeps its place and takes the new value
dict_set(d, k, v) ==
    IF dict_has(d, k)
    THEN [i \in 1..Len(d) |->
             IF d[i].key = k THEN [key |-> k, value |-> v] ELSE d[i]]
    ELSE Append(d, [key |-> k, value |-> v])

\* KeyKept with the test left out
KeyKept_always(key) == TRUE

\* the test `if key:` of build
KeyKept(key) == key # <<>>

RECURSIVE BuildLoop(_, _, _)
\* the loop of AvailabilityIndex.build over the records not yet read
BuildLoop(records, by_norm, names) ==
    IF records = <<>> THEN [by_norm |-> by_norm, names |-> names]
    ELSE LET r == Head(records)
             key == normalize_country(r.country)
         IN  IF KeyKept(key)
             THEN BuildLoop(Tail(records), dict_set(by_norm, key, r),
                            Append(names, r.country))
             ELSE BuildLoop(Tail(records), by_norm, names)

\* sorted(set(names), key=str.lower): every order the sort can give.  The
\* sort is stable over the set's iteration order, which Python does not fix
\* for strings, so names equal under str.lower come in either order.
SortedNames(names) ==
    LET S == {names[i] : i \in 1..Len(names)}
        n == Cardinality(S)
    IN  {s \in [1..n -> S] :
            /\ \A i, j \in 1..n : i # j => s[i] # s[j]
            /\ \A i \in 1..(n - 1) :
                   ~StrLess(str_lower(s[i + 1]), str_lower(s[i]))}

\* AvailabilityIndex.build: the indexes it can return
build(records) ==
    LET done == BuildLoop(records, <<>>, <<>>)
    IN  {[by_norm |-> done.by_norm, all_names |-> an] :
            an \in SortedNames(done.names)}

RECURSIVE NormMap(_, _)
\* {normalize_country(n): n for n in all_names if normalize_country(n)}
NormMap(all_names, d) ==
    IF all_names = <<>> THEN d
    ELSE LET n == Head(all_names)
             k == normalize_country(n)
         IN  NormMap(Tail(all_names), IF k # <<>> THEN dict_set(d, k, n) ELSE d)

\* x in y, for strings
IsSubstr(x, y) ==
    \E i \in 0..(Len(y) - Len(x)) : SubSeq(y, i + 1, i + Len(x)) = x

\* the substring fallback of find: the first key, in dict order, that
\* holds q or that q holds
SubstringKeys(q, keys) ==
    {i \in 1..Len(keys) : IsSubstr(q, keys[i]) \/ IsSubstr(keys[i], q)}

\* Fallback with the 0.75 tier returning the record it matched as well
Fallback_with_record(idx, q) ==
    LET keys == dict_keys(idx.by_norm)
        candidates == get_close_matches(q, keys, 75)
    IN  IF candidates # <<>>
        THEN <<Some(dict_get(idx.by_norm, candidates[1])),
               Some(dict_get(idx.by_norm, candidates[1]).country)>>
        ELSE <<Absent, Absent>>

\* what find returns past the exact tier: never the record
Fallback(idx, q) ==
    LET keys == dict_keys(idx.by_norm)
        candidates == get_close_matches(q, keys, 75)
        norm_map == NormMap(idx.all_names, <<>>)
        candidates2 == get_close_matches(q, dict_keys(norm_map), 60)
        sub == SubstringKeys(q, keys)
    IN  IF candidates # <<>>
        THEN <<Absent, Some(dict_get(idx.by_norm, candidates[1]).country)>>
        ELSE IF candidates2 # <<>>
        THEN <<Absent, Some(dict_get(norm_map, candidates2[1]))>>
        ELSE IF sub # {}
        THEN <<Absent,
               Some(dict_get(idx.by_norm,
                             keys[CHOOSE i \in sub : \A j \in sub : i <= j]).country)>>
        ELSE <<Absent, Absent>>

\* find with the exact tier tried after the other tiers
find_exact_last(idx, query) ==
    LET q == normalize_country(query)
        fb == Fallback(idx, q)
    IN  IF q = <<>> THEN <<Absent, Absent>>
        ELSE IF fb[2] # Absent THEN fb
        ELSE IF dict_has(idx.by_norm, q)
        THEN <<Some(dict_get(idx.by_norm, q)), Absent>>
        ELSE <<Absent, Absent>>

\* AvailabilityIndex.find: the pair (record, suggestion)
find(idx, query) ==
    LET q == normalize_country(query)
    IN  IF q = <<>> THEN <<Absent, Absent>>
        ELSE IF dict_has(idx.by_norm, q)
        THEN <<Some(dict_get(idx.by_norm, q)), Absent>>
        ELSE Fallback(idx, q)

----------------------------------------------------------------------------
(* The artist scorer of /artist.  A score is a fraction num/den like a      *)
(* ratio: 1.0 is 1/1 and 0.0 is 0/1.                                        *)

FUZZY_THRESHOLD == 70

One == [num |-> 1, den |-> 1]
Zero == [num |-> 0, den |-> 1]

IsAlphaChar(c) == isalpha(c)

\* normalize_name: NFKD, keep the alphabetic characters, lowercase
normalize_name(s) ==
    IF s = <<>> THEN <<>>
    ELSE str_lower(SelectSeq(
             FlatMap([c \in {s[i] : i \in 1..Len(s)} |-> nfkd(c)], s),
             IsAlphaChar))

\* fuzzy_score without the one-letter special case
fuzzy_score_no_single(query, target) ==
    LET q == normalize_name(query)
        t == normalize_name(target)
    IN  IF target = <<>> THEN Zero
        ELSE IF q = <<>> THEN Zero
        ELSE IF Len(q) >= 3 /\ IsSubstr(q, t) THEN One
        ELSE ratio(q, t)

\* fuzzy_score
fuzzy_score(query, target) ==
    LET q == normalize_name(query)
        t == normalize_name(target)
    IN  IF target = <<>> THEN Zero
        ELSE IF q = <<>> THEN Zero
        ELSE IF Len(q) = 1 THEN (IF t = q THEN One ELSE Zero)
        ELSE IF Len(q) >= 3 /\ IsSubstr(q, t) THEN One
        ELSE ratio(q, t)

----------------------------------------------------------------------------
(* Cache: the slot _data is Absent or Some(<<ts, data>>).                   *)

\* Cache.get without the expiry test
Cache_get_no_expiry(_data, life, time) ==
    IF _data = Absent THEN Absent ELSE Some(_data[1][2])

\* Cache.get at clock value time.  `not self._data` is true of None only:
\* the slot is a pair, and a pair is truthy whatever it holds, an empty
\* record list included.
Cache_get(_data, life, time) ==
    IF _data = Absent THEN Absent
    ELSE IF time - _data[1][1] > life THEN Absent
    ELSE Some(_data[1][2])

\* what Cache.get reads of the slot: `ts, data = self._data`, one read of
\* one tuple, or nothing of an empty slot
Cache_read(_data) == _data

\* Cache.set writing the data into a filled slot and keeping its stamp
Cache_set_in_place(_data, data, time) ==
    IF _data = Absent THEN Some(<<time, data>>)
    ELSE Some(<<_data[1][1], data>>)

\* Cache.set keeping a slot that is already filled
Cache_set_if_empty(_data, data, time) ==
    IF _data = Absent THEN Some(<<time, data>>) ELSE _data

\* Cache.set at clock value time: the new slot
Cache_set(_data, data, time) == Some(<<time, data>>)

----------------------------------------------------------------------------
(* SheetClient.fetch_records: values is the sheet, a list of rows, the      *)
(* first the header; a row is a list of cells and may be short.             *)

\* row[i].strip() if i < len(row) else ""   (i is 1-based here)
Cell(row, i) == IF i <= Len(row) THEN str_strip(row[i]) ELSE <<>>

\* the record of one row: columns A to F
RowRecord(row) ==
    CountryRecord(Cell(row, 2), Cell(row, 1), Cell(row, 3), Cell(row, 4),
                  Cell(row, 5), Cell(row, 6))

HasCountry(r) == r.country # <<>>

fetch_records(values) ==
    LET rows == IF values = <<>> THEN <<>> ELSE Tail(values)
    IN  SelectSeq([i \in 1..Len(rows) |-> RowRecord(rows[i])], HasCountry)

----------------------------------------------------------------------------
(* The request handlers, past the loading of the records.  A reply is a     *)
(* record [kind, a, b, c]; what a, b and c hold depends on the kind.        *)

Reply(kind, a, b, c) == [kind |-> kind, a |-> a, b |-> b, c |-> c]

\* the reply of either handler when the load raised
ErrorReply == Reply("error", <<>>, <<>>, <<>>)

\* the labels of the readiness buckets
Complete == <<"C","o","m","p","l","e","t","e">>
InProgress == <<"I","n"," ","p","r","o","g","r","e","s","s">>
NoStatus == <<"N","o"," ","s","t","a","t","u","s">>
Other == <<"O","t","h","e","r">>

\* format_ready_flag: a label, or the raw value when it reads as none
format_ready_flag(raw) ==
    LET s == str_lower(str_strip(raw))
    IN  IF s = <<>> THEN NoStatus
        ELSE IF s \in {<<"y">>, <<"y","e","s">>, <<"r","e","a","d","y">>,
                       <<"r","d","y">>} THEN Complete
        ELSE IF s \in {<<"n">>, <<"n","o">>} THEN InProgress
        ELSE raw

\* the bucket format_list puts a record of flag raw in
BucketOf(raw) ==
    IF format_ready_flag(raw) \in {Complete, InProgress, NoStatus, Other}
    THEN format_ready_flag(raw) ELSE Other

\* {r.country for r in idx.by_norm.values() if r.is_available(kind) is True}
\* as a list, for sorted(.., key=str.lower)
AvailableNames(idx, kind) ==
    LET vals == dict_values(idx.by_norm)
        Open(r) == is_available(r, kind) = PyTrue
        kept == SelectSeq(vals, Open)
    IN  [i \in 1..Len(kept) |-> kept[i].country]

\* /available on a character: the reply to what idx.find returned
found_reply(res) ==
    IF res[1] # Absent THEN Reply("record", res[1][1], <<>>, <<>>)
    ELSE IF res[2] # Absent THEN Reply("suggest", res[2][1], <<>>, <<>>)
    ELSE Reply("notfound", <<>>, <<>>, <<>>)

\* /available past _load_index: the replies it can send (the sorts of
\* names equal under str.lower can come out either way)
available_reply(idx, character) ==
    IF str_lower(str_strip(character))
           \in {<<"b","a","l","l">>, <<"b","a","l","l","s">>, <<>>}
    THEN {Reply("list", sp, sl, <<>>) :
              sp \in SortedNames(AvailableNames(idx, "sprite")),
              sl \in SortedNames(AvailableNames(idx, "splash"))}
    ELSE {found_reply(find(idx, str_strip(character)))}

\* the score of a claim field: fuzzy_score(query, raw) if raw else 0.0
FieldScore(query, raw) == IF raw # <<>> THEN fuzzy_score(query, raw) ELSE Zero

\* artist_scores[raw] = max(artist_scores.get(raw, 0.0), score)
ScoreNoted(scores, raw, sc) ==
    IF dict_has(scores, raw) /\ ~RatioGreater(sc, dict_get(scores, raw))
    THEN scores
    ELSE dict_set(scores, raw, sc)

\* scores after `if score >= FUZZY_THRESHOLD:` on the claim raw
ScoreKept(scores, raw, sc) ==
    IF AtLeast(sc, FUZZY_THRESHOLD) THEN ScoreNoted(scores, str_strip(raw), sc)
    ELSE scores

\* matches after `if score >= FUZZY_THRESHOLD:` on the record r
MatchKept(matches, r, sc) ==
    IF AtLeast(sc, FUZZY_THRESHOLD) THEN Append(matches, r) ELSE matches

\* one pass of the loop of /artist: the record r, with the scores of its
\* splash and sprite claims
ArtistStep(r, acc, splash_score, sprite_score) ==
    [matches_splash |-> MatchKept(acc.matches_splash, r, splash_score),
     matches_sprite |-> MatchKept(acc.matches_sprite, r, sprite_score),
     artist_scores |->
         ScoreKept(ScoreKept(acc.artist_scores, r.splash_artist, splash_score),
                   r.sprite_artist, sprite_score)]

RECURSIVE ArtistLoop(_, _, _)
\* the loop of /artist over the records not yet read; acc holds
\* matches_splash, matches_sprite and artist_scores
ArtistLoop(records, query, acc) ==
    IF records = <<>> THEN acc
    ELSE ArtistLoop(Tail(records), query,
                    ArtistStep(Head(records), acc,
                               FieldScore(query, str_strip(Head(records).splash_artist)),
                               FieldScore(query, str_strip(Head(records).sprite_artist))))

\* max(artist_scores.items(), key=lambda kv: kv[1])[0]: the first item, in
\* dict order, of the greatest score
BestArtist(scores) ==
    scores[CHOOSE i \in 1..Len(scores) :
               /\ \A j \in 1..Len(scores) :
                      ~RatioGreater(scores[j].value, scores[i].value)
               /\ \A j \in 1..(i - 1) :
                      RatioGreater(scores[i].value, scores[j].value)].key

\* [r.country for r in recs]
Countries(recs) == [i \in 1..Len(recs) |-> recs[i].country]

RECURSIVE SortedByCountry(_)
\* sorted(recs, key=lambda r: r.country.lower()): a stable insertion sort
SortedByCountry(recs) ==
    IF recs = <<>> THEN <<>>
    ELSE LET rest == SortedByCountry(SubSeq(recs, 1, Len(recs) - 1))
             r == recs[Len(recs)]
             Before(x) == ~StrLess(str_lower(r.country), str_lower(x.country))
             After(x) == StrLess(str_lower(r.country), str_lower(x.country))
         IN  SelectSeq(rest, Before) \o <<r>> \o SelectSeq(rest, After)

\* the countries of the records of one readiness label, in their order
Bucket(sorted, flag, label) ==
    LET In(r) == BucketOf(r[flag]) = label
    IN  Countries(SelectSeq(sorted, In))

RECURSIVE Buckets(_, _, _)
\* the buckets of the labels, one after the other
Buckets(sorted, flag, labels) ==
    IF labels = <<>> THEN <<>>
    ELSE Bucket(sorted, flag, Head(labels)) \o Buckets(sorted, flag, Tail(labels))

\* format_list: the countries of a field, by readiness bucket, each bucket
\* in sorted order.  The cut at 1000 characters is out of reach of the
\* sheets modelled.
format_list(recs, flag) ==
    Buckets(SortedByCountry(recs), flag,
            <<Complete, InProgress, NoStatus, Other>>)

\* /artist past its loop: the kind filter and the reply
matched_reply(name, art_type, acc) ==
    LET matches_splash == IF art_type = "sprite" THEN <<>> ELSE acc.matches_splash
        matches_sprite == IF art_type = "splash" THEN <<>> ELSE acc.matches_sprite
    IN  IF matches_splash = <<>> /\ matches_sprite = <<>>
        THEN Reply("noartist", <<>>, <<>>, <<>>)
        ELSE Reply("art",
                   IF acc.artist_scores # <<>>
                   THEN BestArtist(acc.artist_scores) ELSE name,
                   IF art_type \in {"both", "splash"}
                   THEN Some(format_list(matches_splash, "splash_rdy")) ELSE Absent,
                   IF art_type \in {"both", "sprite"}
                   THEN Some(format_list(matches_sprite, "sprite_rdy")) ELSE Absent)

\* /artist past the loading of the records: the reply it sends.  In an
\* "art" reply a is the title's artist, b the splash field and c the sprite
\* field (Absent when the kind filter leaves the field out).
artist_reply(records, name, art_type) ==
    IF str_lower(str_strip(name)) = <<>> THEN Reply("noquery", <<>>, <<>>, <<>>)
    ELSE matched_reply(name, art_type,
                       ArtistLoop(records, str_lower(str_strip(name)),
                                  [matches_splash |-> <<>>, matches_sprite |-> <<>>,
                                   artist_scores |-> <<>>]))


----------------------------------------------------------------------------
(* Each specification below drives one part of the state and leaves the    *)
(* other parts as they are here.                                           *)

NormIdle ==
    /\ text = <<>>
    /\ key1 = Absent
    /\ key2 = Absent

ClassIdle ==
    /\ rec = CountryRecord(<<"P">>, <<>>, <<>>, <<>>, <<>>, <<>>)
    /\ kindArg = None
    /\ avail = None

IndexIdle ==
    /\ ixRecords = <<>>
    /\ index = Absent
    /\ ixQuery = <<>>
    /\ ixFound = Absent

ScoreIdle ==
    /\ sQuery = <<>>
    /\ sTarget = <<>>
    /\ sScore = Absent

ArtistIdle ==
    /\ aRecords = <<>>
    /\ aName = <<>>
    /\ aKind = "both"
    /\ aReply = Absent

(* The bot after construction: an empty cache, no sheet client, every      *)
(* handler idle.                                                           *)

Handlers == {"h1", "h2"}

NoRequest == [cmd |-> "none", arg |-> <<>>, kind |-> "both"]

NoReply == Reply("none", <<>>, <<>>, <<>>)

HandlersIdle ==
    /\ loop = "none"
    /\ pc = [h \in Handlers |-> "idle"]
    /\ req = [h \in Handlers |-> NoRequest]
    /\ got = [h \in Handlers |-> Absent]
    /\ cached = [h \in Handlers |-> Absent]
    /\ hrecords = [h \in Handlers |-> Absent]
    /\ reply = [h \in Handlers |-> NoReply]
    /\ fetches = [h \in Handlers |-> 0]

BotIdle ==
    /\ now = 0
    /\ ttl = 0
    /\ cache_data = Absent
    /\ lastSet = Absent
    /\ sheet = <<>>
    /\ sheet_client = FALSE
    /\ HandlersIdle

----------------------------------------------------------------------------
(* Harness for normalize_country: the input is any text of at most         *)
(* MaxTextLen characters of NormAlphabet; the function is applied to the   *)
(* input and then to its own output.                                       *)

MaxTextLen == 5

NormAlphabet == {"a", "b", "l", "B", " ", "U0130"}

NormInit ==
    /\ text \in TextsUpTo(NormAlphabet, MaxTextLen)
    /\ key1 = Absent
    /\ key2 = Absent
    /\ ClassIdle /\ IndexIdle /\ ScoreIdle /\ ArtistIdle /\ BotIdle

Normalize ==
    /\ key1 = Absent
    /\ key1' = Some(normalize_country(text))
    /\ UNCHANGED <<text, key2, classVars, indexVars, scoreVars, artistVars,
                   botVars>>

Renormalize ==
    /\ key1 # Absent
    /\ key2 = Absent
    /\ key2' = Some(normalize_country(key1[1]))
    /\ UNCHANGED <<text, key1, classVars, indexVars, scoreVars, artistVars,
                   botVars>>

NormNext == Normalize \/ Renormalize

SpecNormalize == NormInit /\ [][NormNext]_vars


\* C9: normalize_country is idempotent on its own output: for every input
\* text x, normalize_country(normalize_country(x)) = normalize_country(x);
\* and normalize_country("") = "" and normalize_country("Poland Ball") =
\* "poland".
NormalizeIdempotent ==
    /\ key2 # Absent => key2 = key1
    /\ normalize_country(<<>>) = <<>>
    /\ normalize_country(<<"P","o","l","a","n","d"," ","B","a","l","l">>)
           = <<"p","o","l","a","n","d">>

\* The two instances the claim names, which the code satisfies.
NormalizeExamples ==
    /\ normalize_country(<<>>) = <<>>
    /\ normalize_country(<<"P","o","l","a","n","d"," ","B","a","l","l">>)
           = <<"p","o","l","a","n","d">>

----------------------------------------------------------------------------
(* Harness for the classifier: a record whose two artist-claim fields are   *)
(* any texts of at most MaxCellLen characters of CellAlphabet.              *)

MaxCellLen == 2

CellAlphabet == {" ", "y", "Y", "n", "x"}

Kinds == {"splash", "sprite", "both"}

ClassInit ==
    /\ \E sa, pa \in TextsUpTo(CellAlphabet, MaxCellLen) :
           rec = CountryRecord(<<"P">>, <<>>, sa, <<>>, pa, <<>>)
    /\ kindArg = None
    /\ avail = None
    /\ NormIdle /\ IndexIdle /\ ScoreIdle /\ ArtistIdle /\ BotIdle

IsAvailable ==
    /\ kindArg = None
    /\ \E kind \in Kinds :
           /\ kindArg' = kind
           /\ avail' = is_available(rec, kind)
    /\ UNCHANGED <<rec, normVars, indexVars, scoreVars, artistVars,
                   botVars>>

ClassNext == IsAvailable

SpecClassify == ClassInit /\ [][ClassNext]_vars

\* The claim field that is_available(kindArg) classifies.
ClaimField ==
    IF kindArg = "splash" THEN rec.splash_artist ELSE rec.sprite_artist

----------------------------------------------------------------------------
(* Harness for AvailabilityIndex: build on any sequence of at most          *)
(* MaxRecords records of RecordPool, then find on any query of QueryPool.   *)
(* The pool holds names that collide on one key ("Poland", "poland",        *)
(* "poland ball"), a name that normalizes to nothing ("Ball") and an        *)
(* unrelated one; the queries hit every tier of find.                       *)

MaxRecords == 3

Rec(country, splash_artist) ==
    CountryRecord(country, <<>>, splash_artist, <<>>, <<>>, <<>>)

RecordPool ==
    { Rec(<<"P","o","l","a","n","d">>, <<>>),
      Rec(<<"p","o","l","a","n","d">>, <<"y">>),
      Rec(<<"p","o","l","a","n","d"," ","b","a","l","l">>, <<"x">>),
      Rec(<<"B","a","l","l">>, <<>>),
      Rec(<<"G","e","r","m","a","n","y">>, <<>>) }

QueryPool ==
    { <<"P","O","L","A","N","D">>,          \* exact
      <<"P","l","a","n","d">>,              \* close to "poland" at 0.75
      <<"p","o","l","s","k","a">>,          \* close to "poland" at 0.6 only
      <<"p","o">>,                          \* a substring of "poland" only
      <<"b","a","l","l">>,                  \* normalizes to nothing
      <<"x","y","z">> }                     \* no match

IndexInit ==
    /\ ixRecords \in UNION {[1..k -> RecordPool] : k \in 0..MaxRecords}
    /\ index = Absent
    /\ ixQuery = <<>>
    /\ ixFound = Absent
    /\ NormIdle /\ ClassIdle /\ ScoreIdle /\ ArtistIdle /\ BotIdle

Build ==
    /\ index = Absent
    /\ \E ix \in build(ixRecords) : index' = Some(ix)
    /\ UNCHANGED <<ixRecords, ixQuery, ixFound, normVars, classVars, scoreVars, artistVars,
                   botVars>>

Find ==
    /\ index # Absent
    /\ ixFound = Absent
    /\ \E q \in QueryPool :
           /\ ixQuery' = q
           /\ ixFound' = Some(find(index[1], q))
    /\ UNCHANGED <<ixRecords, index, normVars, classVars, scoreVars, artistVars,
                   botVars>>

IndexNext == Build \/ Find

SpecIndex == IndexInit /\ [][IndexNext]_vars

\* the key of the i-th input record
KeyOf(i) == normalize_country(ixRecords[i].country)

\* the positions of key k in the built mapping
SlotsOf(k) ==
    {j \in 1..Len(index[1].by_norm) : index[1].by_norm[j].key = k}

\* the last input record whose name normalizes to k
LastWith(k) ==
    ixRecords[CHOOSE i \in 1..Len(ixRecords) :
                  /\ KeyOf(i) = k
                  /\ \A i2 \in (i + 1)..Len(ixRecords) : KeyOf(i2) # k]

\* C4: in the index build returns, every non-empty normalized name of an
\* input record is a key of by_norm exactly once, and the key maps to the
\* last input record with that normalized name.
BuildKeysUniqueLastWins ==
    index # Absent =>
        \A i \in 1..Len(ixRecords) :
            KeyOf(i) # <<>> =>
                /\ Cardinality(SlotsOf(KeyOf(i))) = 1
                /\ \A j \in SlotsOf(KeyOf(i)) :
                       index[1].by_norm[j].value = LastWith(KeyOf(i))

\* An index was built from records of which an earlier and a later one,
\* of different names, share a normalized name.
BuildCollisionSeen ==
    /\ index # Absent
    /\ \E i, j \in 1..Len(ixRecords) :
           /\ i < j
           /\ KeyOf(i) # <<>>
           /\ KeyOf(i) = KeyOf(j)
           /\ ixRecords[i].country # ixRecords[j].country
           /\ LastWith(KeyOf(i)) = ixRecords[j]

\* C5 (the state part): every key of the mapping is a non-empty string, and
\* an input record whose name normalizes to the empty string is no value of
\* the mapping and its name is not in all_names.
IndexKeysNonEmptyState ==
    index # Absent =>
        /\ \A j \in 1..Len(index[1].by_norm) : index[1].by_norm[j].key # <<>>
        /\ \A i \in 1..Len(ixRecords) :
               KeyOf(i) = <<>> =>
                   /\ \A j \in 1..Len(index[1].by_norm) :
                          index[1].by_norm[j].value # ixRecords[i]
                   /\ \A j \in 1..Len(index[1].all_names) :
                          index[1].all_names[j] # ixRecords[i].country

\* C5: in every index build produces the keys are non-empty and the records
\* whose name normalizes to the empty string are dropped from the mapping
\* and from all_names, while the input record sequence is left unchanged.
IndexKeysNonEmpty ==
    /\ []IndexKeysNonEmptyState
    /\ [][ixRecords' = ixRecords]_vars

\* An index was built from records of which one normalizes to nothing and
\* another was kept.
BuildDroppedSeen ==
    /\ index # Absent
    /\ index[1].by_norm # <<>>
    /\ \E i \in 1..Len(ixRecords) : KeyOf(i) = <<>>

\* C6: when the query's normalization equals the normalization of an indexed
\* name, find returns the record stored under that key and no suggestion.
FindExact ==
    ixFound # Absent =>
        \A j \in 1..Len(index[1].all_names) :
            normalize_country(index[1].all_names[j]) = normalize_country(ixQuery)
                => /\ ixFound[1][2] = Absent
                   /\ ixFound[1][1] # Absent
                   /\ \E s \in SlotsOf(normalize_country(ixQuery)) :
                          ixFound[1][1] = Some(index[1].by_norm[s].value)

\* find ran on a query that is no indexed name as typed but normalizes to an
\* indexed key, in an index of several keys.
FindExactSeen ==
    /\ ixFound # Absent
    /\ Len(index[1].by_norm) > 1
    /\ dict_has(index[1].by_norm, normalize_country(ixQuery))
    /\ \A j \in 1..Len(index[1].all_names) : index[1].all_names[j] # ixQuery
    /\ ixFound[1][1] # Absent

\* C7: find never returns a record together with a suggestion, and when the
\* normalized query is no key of the mapping the record is absent: the
\* similarity tiers and the substring tier yield at most a suggested name.
FallbackNeverRecord ==
    ixFound # Absent =>
        /\ ~(ixFound[1][1] # Absent /\ ixFound[1][2] # Absent)
        /\ ~dict_has(index[1].by_norm, normalize_country(ixQuery))
               => ixFound[1][1] = Absent

\* The tier of find that answered, for a normalized query that is no key.
TierClose ==
    get_close_matches(normalize_country(ixQuery), dict_keys(index[1].by_norm), 75) # <<>>

TierLoose ==
    /\ ~TierClose
    /\ get_close_matches(normalize_country(ixQuery),
                         dict_keys(NormMap(index[1].all_names, <<>>)), 60) # <<>>

TierSubstring ==
    /\ ~TierClose
    /\ ~TierLoose
    /\ SubstringKeys(normalize_country(ixQuery), dict_keys(index[1].by_norm)) # {}

FallbackCase ==
    /\ ixFound # Absent
    /\ normalize_country(ixQuery) # <<>>
    /\ ~dict_has(index[1].by_norm, normalize_country(ixQuery))

\* find answered from the 0.6 tier with a suggestion and no record.
FallbackLooseSeen ==
    FallbackCase /\ TierLoose /\ ixFound[1][2] # Absent /\ ixFound[1][1] = Absent

FallbackCloseSeen ==
    FallbackCase /\ TierClose /\ ixFound[1][2] # Absent /\ ixFound[1][1] = Absent

FallbackSubstringSeen ==
    FallbackCase /\ TierSubstring /\ ixFound[1][2] # Absent /\ ixFound[1][1] = Absent

----------------------------------------------------------------------------
(* Harness for fuzzy_score: any query of at most MaxQueryLen and any        *)
(* candidate of at most MaxTargetLen characters of ArtistAlphabet, which    *)
(* holds letters of both cases, a letter with an accent and a character     *)
(* that is no letter.                                                       *)

MaxQueryLen == 2

MaxTargetLen == 3

ArtistAlphabet == {"a", "A", "b", "_", "U00E9"}

ScoreInit ==
    /\ sQuery \in TextsUpTo(ArtistAlphabet, MaxQueryLen)
    /\ sTarget \in TextsUpTo(ArtistAlphabet, MaxTargetLen)
    /\ sScore = Absent
    /\ NormIdle /\ ClassIdle /\ IndexIdle /\ ArtistIdle /\ BotIdle

Score ==
    /\ sScore = Absent
    /\ sScore' = Some(fuzzy_score(sQuery, sTarget))
    /\ UNCHANGED <<sQuery, sTarget, normVars, classVars, indexVars, artistVars,
                   botVars>>

ScoreNext == Score

SpecScore == ScoreInit /\ [][ScoreNext]_vars

\* C10: when the loose normalization q of the query has exactly one
\* character, fuzzy_score is 1.0 if the candidate's loose normalization
\* equals q and 0.0 otherwise; so against a candidate whose loose
\* normalization is longer the score is below the acceptance threshold.
SingleLetterRule ==
    (sScore # Absent /\ Len(normalize_name(sQuery)) = 1) =>
        /\ sScore[1] = IF normalize_name(sTarget) = normalize_name(sQuery)
                       THEN One ELSE Zero
        /\ Len(normalize_name(sTarget)) > 1
               => ~AtLeast(sScore[1], FUZZY_THRESHOLD)

\* A one-letter query was scored 0.0 against a longer candidate that holds
\* the letter.
SingleLetterSeen ==
    /\ sScore # Absent
    /\ Len(normalize_name(sQuery)) = 1
    /\ Len(normalize_name(sTarget)) > 1
    /\ IsSubstr(normalize_name(sQuery), normalize_name(sTarget))
    /\ sScore[1] = Zero

----------------------------------------------------------------------------
(* The bot.  A handler is a coroutine on one event loop: between two awaits *)
(* it runs alone (loop names it), and the clock and the sheet move on       *)
(* meanwhile.  /available awaits defer(), then runs _load_index, find and   *)
(* the building of the reply, and awaits followup.send; /artist likewise.   *)

MaxTime == 2

MaxTtl == 1

POLAND == <<"P","o","l","a","n","d">>
GERMANY == <<"G","e","r","m","a","n","y">>
BOB == <<"b","o","b">>

Header == <<<<"I">>, <<"C">>, <<"S">>, <<"R">>, <<"P">>, <<"R">>>>

\* The sheets: one without a data row; one of two characters, with padded
\* cells, a short row and a row without a name.
SheetPool ==
    { <<Header>>,
      <<Header,
        <<<<"Y">>, <<" ">> \o POLAND, BOB, <<"y">>, <<"B","o","b","_">>, <<"n">>>>,
        <<<<>>, GERMANY>>,
        <<<<>>, <<" ">>, BOB>>>> }

Requests ==
    { [cmd |-> "available", arg |-> <<>>, kind |-> "both"],
      [cmd |-> "available", arg |-> <<"P","l","a","n","d">>, kind |-> "both"],
      [cmd |-> "artist", arg |-> <<"B","o","b">>, kind |-> "sprite"] }

Init ==
    /\ now = 0
    /\ ttl \in 0..MaxTtl
    /\ cache_data = Absent
    /\ lastSet = Absent
    /\ sheet \in SheetPool
    /\ sheet_client = FALSE
    /\ HandlersIdle
    /\ NormIdle /\ ClassIdle /\ IndexIdle /\ ScoreIdle /\ ArtistIdle

harnessVars == <<normVars, classVars, indexVars, scoreVars, artistVars>>

\* time passes
Tick ==
    /\ now < MaxTime
    /\ now' = now + 1
    /\ UNCHANGED <<cacheVars, sheet, sheet_client, loop, handlerVars, harnessVars>>

\* somebody edits the sheet
SheetEdit ==
    /\ \E s \in SheetPool \ {sheet} : sheet' = s
    /\ UNCHANGED <<now, cacheVars, sheet_client, loop, handlerVars, harnessVars>>

\* a slash command arrives; the handler awaits interaction.response.defer()
Invoke(h) ==
    /\ pc[h] = "idle"
    /\ \E r \in Requests : req' = [req EXCEPT ![h] = r]
    /\ pc' = [pc EXCEPT ![h] = "deferred"]
    /\ UNCHANGED <<now, cacheVars, sheet, sheet_client, loop, got, cached,
                   hrecords, reply, fetches, harnessVars>>

\* NeedsFetch taking an empty snapshot for none (`if not cached`)
NeedsFetch_falsy(c) == c = Absent \/ c[1] = <<>>

\* `cached is None` in _load_index, `records is None` in /artist
NeedsFetch(c) == c = Absent

\* the handler resumes and calls Cache.get
Get(h) ==
    /\ loop = "none"
    /\ pc[h] = "deferred"
    /\ loop' = h
    /\ got' = [got EXCEPT ![h] = Cache_read(cache_data)]
    /\ LET c == Cache_get(cache_data, ttl, now)
       IN  /\ cached' = [cached EXCEPT ![h] = c]
           /\ IF NeedsFetch(c)
              THEN /\ pc' = [pc EXCEPT ![h] = "fetch"]
                   /\ UNCHANGED hrecords
              ELSE /\ pc' = [pc EXCEPT ![h] = "match"]
                   /\ hrecords' = [hrecords EXCEPT ![h] = c]
    /\ UNCHANGED <<now, cacheVars, sheet, sheet_client, req, reply, fetches,
                   harnessVars>>

\* the first SheetClient() raises; the handler's except clause replies
ConnectFails(h) ==
    /\ loop = h
    /\ pc[h] = "fetch"
    /\ sheet_client = FALSE
    /\ reply' = [reply EXCEPT ![h] = ErrorReply]
    /\ pc' = [pc EXCEPT ![h] = "send"]
    /\ loop' = "none"
    /\ UNCHANGED <<now, cacheVars, sheet, sheet_client, req, got, cached,
                   hrecords, fetches, harnessVars>>

\* FetchFails publishing an empty snapshot before it replies
FetchFails_blanking(h) ==
    /\ loop = h
    /\ pc[h] = "fetch"
    /\ sheet_client' = TRUE
    /\ fetches' = [fetches EXCEPT ![h] = @ + 1]
    /\ cache_data' = Cache_set(cache_data, <<>>, now)
    /\ reply' = [reply EXCEPT ![h] = ErrorReply]
    /\ pc' = [pc EXCEPT ![h] = "send"]
    /\ loop' = "none"
    /\ UNCHANGED <<now, ttl, lastSet, sheet, req, got, cached, hrecords,
                   harnessVars>>

\* fetch_records raises; the handler's except clause replies
FetchFails(h) ==
    /\ loop = h
    /\ pc[h] = "fetch"
    /\ sheet_client' = TRUE
    /\ fetches' = [fetches EXCEPT ![h] = @ + 1]
    /\ reply' = [reply EXCEPT ![h] = ErrorReply]
    /\ pc' = [pc EXCEPT ![h] = "send"]
    /\ loop' = "none"
    /\ UNCHANGED <<now, cacheVars, sheet, req, got, cached, hrecords,
                   harnessVars>>

\* fetch_records returns the records of the sheet
FetchOk(h) ==
    /\ loop = h
    /\ pc[h] = "fetch"
    /\ sheet_client' = TRUE
    /\ fetches' = [fetches EXCEPT ![h] = @ + 1]
    /\ hrecords' = [hrecords EXCEPT ![h] = Some(fetch_records(sheet))]
    /\ pc' = [pc EXCEPT ![h] = "set"]
    /\ UNCHANGED <<now, cacheVars, sheet, loop, req, got, cached, reply,
                   harnessVars>>

\* the handler calls Cache.set with the records it fetched
Publish(h) ==
    /\ loop = h
    /\ pc[h] = "set"
    /\ cache_data' = Cache_set(cache_data, hrecords[h][1], now)
    /\ lastSet' = Some(<<now, hrecords[h][1]>>)
    /\ pc' = [pc EXCEPT ![h] = "match"]
    /\ UNCHANGED <<now, ttl, sheet, sheet_client, loop, req, got, cached,
                   hrecords, reply, fetches, harnessVars>>

\* the replies a handler can send for a request and the records it loaded
Outcomes(r, recs) ==
    IF r.cmd = "artist" THEN {artist_reply(recs, r.arg, r.kind)}
    ELSE UNION {available_reply(idx, r.arg) : idx \in build(recs)}

\* Outcomes, worked out once for every request and every record list a
\* sheet of the pool gives
OutcomeTable ==
    [r \in Requests, recs \in {fetch_records(s) : s \in SheetPool}
        |-> Outcomes(r, recs)]

\* the handler matches against its records, builds the reply and awaits
\* followup.send
Match(h) ==
    /\ loop = h
    /\ pc[h] = "match"
    /\ \E out \in OutcomeTable[req[h], hrecords[h][1]] :
           reply' = [reply EXCEPT ![h] = out]
    /\ pc' = [pc EXCEPT ![h] = "send"]
    /\ loop' = "none"
    /\ UNCHANGED <<now, cacheVars, sheet, sheet_client, req, got, cached,
                   hrecords, fetches, harnessVars>>

\* the reply is sent and the handler returns
Send(h) ==
    /\ pc[h] = "send"
    /\ pc' = [pc EXCEPT ![h] = "idle"]
    /\ req' = [req EXCEPT ![h] = NoRequest]
    /\ got' = [got EXCEPT ![h] = Absent]
    /\ cached' = [cached EXCEPT ![h] = Absent]
    /\ hrecords' = [hrecords EXCEPT ![h] = Absent]
    /\ reply' = [reply EXCEPT ![h] = NoReply]
    /\ fetches' = [fetches EXCEPT ![h] = 0]
    /\ UNCHANGED <<now, cacheVars, sheet, sheet_client, loop, harnessVars>>

Next ==
    \/ Tick
    \/ SheetEdit
    \/ \E h \in Handlers :
           \/ Invoke(h)
           \/ Get(h)
           \/ ConnectFails(h)
           \/ FetchFails(h)
           \/ FetchOk(h)
           \/ Publish(h)
           \/ Match(h)
           \/ Send(h)

Spec == Init /\ [][Next]_vars

\* handler h calls Cache.get in this step
GetStep(h) == pc[h] = "deferred" /\ pc'[h] # "deferred"

\* the last Cache.set was made no more than ttl seconds ago
SetWithinTtl == lastSet # Absent /\ now - lastSet[1][1] <= ttl

\* C1: a Cache.get made within ttl seconds of the last Cache.set returns
\* the snapshot that set stored, a snapshot of no records included.
CacheRoundTrip ==
    [][\A h \in Handlers :
           (GetStep(h) /\ SetWithinTtl) => cached'[h] = Some(lastSet[1][2])]_vars

\* A handler got back the empty snapshot that was set a full ttl > 0
\* seconds before.
RoundTripSeen ==
    /\ ttl > 0
    /\ lastSet # Absent
    /\ now = lastSet[1][1] + ttl
    /\ \E h \in Handlers :
           /\ pc[h] = "match"
           /\ fetches[h] = 0
           /\ cached[h] = Some(lastSet[1][2])
           /\ cached[h] = Some(<<>>)

\* C2: Cache.get returns absent when no snapshot was ever set and when
\* more than ttl seconds have passed since the last set (now - ts > ttl);
\* so a snapshot it returns is the one last set, set within ttl seconds of
\* the call.
CacheFreshness ==
    [][\A h \in Handlers :
           GetStep(h) =>
               /\ ~SetWithinTtl => cached'[h] = Absent
               /\ cached'[h] # Absent =>
                      SetWithinTtl /\ cached'[h] = Some(lastSet[1][2])]_vars

\* Cache.get returned absent on a slot that holds a snapshot gone stale.
StaleSeen ==
    \E h \in Handlers :
        /\ pc[h] = "fetch"
        /\ cached[h] = Absent
        /\ cache_data # Absent
        /\ cache_data = lastSet

\* handler h took the branch of the absent snapshot: one fetch
Rebuilt(h) == cached[h] = Absent /\ fetches[h] = 1

\* handler h took the branch of the cached snapshot: no fetch
Reused(h) == cached[h] # Absent /\ fetches[h] = 0 /\ hrecords[h] = cached[h]

\* C3: a handler whose Cache.get was absent fetches the records once and
\* has published them with Cache.set, whole, by the time it matches, and
\* it matches against those records; a handler whose Cache.get returned a
\* snapshot fetches nothing and matches against the snapshot.
LoadPolicy ==
    \A h \in Handlers :
        /\ pc[h] = "fetch" => cached[h] = Absent /\ fetches[h] = 0
        /\ pc[h] = "set" => Rebuilt(h) /\ hrecords[h] # Absent
        /\ pc[h] = "match" =>
               \/ /\ Rebuilt(h)
                  /\ cache_data # Absent
                  /\ cache_data[1][2] = hrecords[h][1]
                  /\ cache_data = lastSet
               \/ Reused(h)
        /\ (pc[h] = "send" /\ reply[h].kind # "error") =>
               /\ Rebuilt(h) \/ Reused(h)
               /\ reply[h] \in Outcomes(req[h], hrecords[h][1])

\* A handler whose Cache.get was absent fetched the records of the sheet,
\* published them and is about to match against them.
RebuildSeen ==
    \E h \in Handlers :
        /\ pc[h] = "match"
        /\ Rebuilt(h)
        /\ hrecords[h] = Some(fetch_records(sheet))
        /\ hrecords[h][1] # <<>>
        /\ cache_data = Some(<<now, hrecords[h][1]>>)
        /\ now > ttl

\* C11: however the handlers interleave, the slot a Cache.get reads is the
\* (timestamp, data) pair of one Cache.set call, the latest; the stamp it
\* tests for freshness and the data it returns are the two halves of it.
NoTornRead ==
    [][\A h \in Handlers :
           GetStep(h) =>
               /\ got'[h] = lastSet
               /\ cached'[h] # Absent =>
                      /\ got'[h] # Absent
                      /\ cached'[h] = Some(got'[h][1][2])
                      /\ now - got'[h][1][1] <= ttl]_vars

\* A handler read the pair another handler set, while that handler was
\* still sending its reply, and after an earlier pair had been replaced.
InterleavedReadSeen ==
    \E h, g \in Handlers :
        /\ h # g
        /\ pc[g] = "send"
        /\ Rebuilt(g)
        /\ got[g] # Absent
        /\ pc[h] = "match"
        /\ Reused(h)
        /\ got[h] = lastSet
        /\ got[h] # got[g]
        /\ hrecords[g] = cached[h]

\* the load of handler h raises in this step
FailStep(h) == pc[h] = "fetch" /\ pc'[h] = "send"

\* C12: a load that raises leaves the cache slot as the request found it,
\* with no Cache.set; the request has called fetch_records once at most,
\* goes on to nothing but the sending of the error reply, and does not
\* fetch again.
FetchFailureLeavesCache ==
    [][\A h \in Handlers :
           /\ FailStep(h) =>
                  /\ cache_data = got[h]
                  /\ cache_data' = cache_data
                  /\ lastSet' = lastSet
                  /\ reply'[h].kind = "error"
                  /\ fetches'[h] <= 1
                  /\ hrecords'[h] = Absent
           /\ (pc[h] = "send" /\ reply[h].kind = "error") =>
                  /\ pc'[h] \in {"send", "idle"}
                  /\ fetches'[h] \in {fetches[h], 0}
                  /\ pc'[h] = "send" => reply'[h] = reply[h]]_vars

\* fetch_records raised on a refresh of a stale snapshot: the handler is
\* sending the error reply and the slot still holds the stale snapshot.
FetchFailureSeen ==
    \E h \in Handlers :
        /\ pc[h] = "send"
        /\ reply[h].kind = "error"
        /\ fetches[h] = 1
        /\ cached[h] = Absent
        /\ got[h] # Absent
        /\ cache_data = got[h]
        /\ now - cache_data[1][1] > ttl

\* find(s) on the index built returns a record named s, from the exact tier
RoundTrips(s) ==
    LET back == find(index[1], s)
    IN  /\ back[1] # Absent
        /\ back[2] = Absent
        /\ back[1][1].country = s

\* find returned a suggestion and no record
Suggested == ixFound # Absent /\ ixFound[1][1] = Absent /\ ixFound[1][2] # Absent

\* C13: a name find suggests is a name find resolves: find of the
\* suggestion returns, from the exact tier, a record of that very name,
\* whichever tier suggested it and whether or not names collide on a key.
SuggestionRoundTrip == Suggested => RoundTrips(ixFound[1][2][1])

\* What does hold of a suggestion: find resolves it from the exact tier to
\* the record of its key, and to a record of its name when the 0.75 tier or
\* the substring tier made it.
SuggestionResolves ==
    Suggested =>
        /\ find(index[1], ixFound[1][2][1])[1] # Absent
        /\ find(index[1], ixFound[1][2][1])[2] = Absent
        /\ (TierClose \/ TierSubstring) => RoundTrips(ixFound[1][2][1])

----------------------------------------------------------------------------
(* Harness for /artist past the load: any sequence of at most              *)
(* MaxArtistRecords records of ArtistPool, any name of ArtistNames and any  *)
(* kind filter.  The pool holds a record claimed for the splash only, one   *)
(* claimed for the sprite only by a closely named artist, one claimed for   *)
(* both under two spellings, and one whose artist is no match.              *)

MaxArtistRecords == 2

Claimed(country, splash_artist, sprite_artist) ==
    CountryRecord(country, <<>>, splash_artist, <<"y">>, sprite_artist, <<"n">>)

ArtistPool ==
    { Claimed(<<"A">>, <<"b","o","b">>, <<>>),
      Claimed(<<"B">>, <<>>, <<"b","o","o","b">>),
      Claimed(<<"C">>, <<"B","o","b","_">>, <<"b","o","b">>),
      Claimed(<<"D">>, <<"r","o","b">>, <<>>) }

ArtistNames == { <<"b","o","b">>, <<" ","B","o","o","b">>, <<" ">> }

ArtistInit ==
    /\ aRecords \in UNION {[1..k -> ArtistPool] : k \in 0..MaxArtistRecords}
    /\ aName \in ArtistNames
    /\ aKind \in Kinds
    /\ aReply = Absent
    /\ NormIdle /\ ClassIdle /\ IndexIdle /\ ScoreIdle /\ BotIdle

Artist ==
    /\ aReply = Absent
    /\ aReply' = Some(artist_reply(aRecords, aName, aKind))
    /\ UNCHANGED <<aRecords, aName, aKind, normVars, classVars, indexVars,
                   scoreVars, botVars>>

ArtistNext == Artist

SpecArtist == ArtistInit /\ [][ArtistNext]_vars

\* the countries a field of the reply lists, none for a field left out
ListedIn(field) ==
    IF field = Absent THEN {} ELSE {field[1][i] : i \in 1..Len(field[1])}

\* the reply lists r for its splash and r's splash artist is the name, or
\* it lists r for its sprite and r's sprite artist is the name
CreditedIn(r, name, art) ==
    \/ r.country \in ListedIn(art.b) /\ str_strip(r.splash_artist) = name
    \/ r.country \in ListedIn(art.c) /\ str_strip(r.sprite_artist) = name

\* C14: the artist named in the title of an /artist reply is the artist,
\* in a role the kind filter kept, of a record the reply lists.
TitleArtistListed ==
    (aReply # Absent /\ aReply[1].kind = "art") =>
        \E i \in 1..Len(aRecords) : CreditedIn(aRecords[i], aReply[1].a, aReply[1])

\* What does hold of the title: without a filter (kind "both") its artist
\* is the artist of a listed record in the role it is listed for, and
\* under any filter it is a claim of one of the records loaded.
TitleArtistMatched ==
    (aReply # Absent /\ aReply[1].kind = "art") =>
        /\ aKind = "both" =>
               \E i \in 1..Len(aRecords) :
                   CreditedIn(aRecords[i], aReply[1].a, aReply[1])
        /\ \E i \in 1..Len(aRecords) :
               aReply[1].a \in {str_strip(aRecords[i].splash_artist),
                                str_strip(aRecords[i].sprite_artist)}

\* Under the sprite filter the title names the splash artist of a record
\* the reply does not list at all.
TitleArtistUnlistedSeen ==
    /\ aReply # Absent
    /\ aReply[1].kind = "art"
    /\ aKind = "sprite"
    /\ aRecords = <<Claimed(<<"A">>, <<"b","o","b">>, <<>>),
                    Claimed(<<"B">>, <<>>, <<"b","o","o","b">>)>>
    /\ aReply[1].a = <<"b","o","b">>
    /\ ListedIn(aReply[1].b) \cup ListedIn(aReply[1].c) = {<<"B">>}

=============================================================================
